---- MODULE Spec2Model ----
(***************************************************************************)
(* A model of libethcore/Transaction.h of FISCO-BCOS: the Transaction      *)
(* entity (fields, signature, the three caches m_hashWith, m_sender and    *)
(* m_rlpBuffer, its setters and observers) and the NodeTransactionMarker   *)
(* (a peer set behind a reader/writer lock).                               *)
(*                                                                         *)
(* Values.  A u256 is a natural number, an Address a natural number with   *)
(* 0 the null address, a byte string a sequence of naturals.  An RLP list  *)
(* is the sequence of its items, each item a byte string.  A signature is  *)
(* the triple <<v, r, s>>, and <<>> stands for "no signature".  A digest   *)
(* is the one-element sequence holding the bytes it was computed from      *)
(* (collision-free hashing), and <<>> is h256(0).                          *)
(***************************************************************************)
EXTENDS Integers, Sequences, FiniteSets, TLC

\* ------------------------------------------------------------------ bounds
MaxU256 == 1
MaxAddr == 1
MaxSig == 1
NumSenders == 2

U256 == 0..MaxU256
Addresses == 0..MaxAddr
\* Payloads: the empty one and one of a single byte.
Datas == {<<>>, <<1>>}
\* Chain and group ids: that of Transaction() and the constructors' default.
Ids == {0, 1}
Signatures == {<<0, k, k>> : k \in 0..MaxSig}

\* ------------------------------------------------------- program constants
c_fieldCountRC1WithOutSig == 7
c_fieldCountRC2WithOutSig == 10
c_sigCount == 3

WithoutSignature == 0
WithSignature == 1

NullTransaction == "NullTransaction"
ContractCreation == "ContractCreation"
MessageCall == "MessageCall"
Types == {NullTransaction, ContractCreation, MessageCall}

CheckLevels == {"None", "Cheap", "Everything"}

NullAddress == 0
ZeroHash == <<>>
EmptyBytes == <<>>
NoSignature == <<>>

\* The value, the gas price and the gas limit have no setter; the
\* constructors are given one value of each.
Values == {0}
GasPrices == {0}
Gases == {0}

\* The peers and the threads that use one marker.
MaxPeer == 2
Peers == 1..MaxPeer
Threads == {"t1", "t2", "t3"}
NoThread == "none"

VARIABLES
    tx,         \* the Transaction object: a record of its data members
    rcVersion,  \* the configured wire-format version (1 = RC1, 2 = RC2)
    last,       \* the setter called last, "other" after any other call
    lhs, rhs,   \* the two operands of a comparison
    cmp,        \* what operator== and operator!= returned for them
    m_nodeListWithTheTransaction,  \* the marker's peer set
    writer,     \* x_nodeListWithTheTransaction: the thread holding it exclusively
    readers,    \* x_nodeListWithTheTransaction: the threads holding it shared
    pc,         \* where each thread is in its marker call
    call,       \* the marker call each thread is making
    result,     \* what a thread's query computed, until it returns
    completed,  \* peers whose append has returned, with no clear() since
    mustSee,    \* the query of a thread began after its peer's append returned
    codecArg,   \* the argument of a call of the codec
    codecRet    \* what that call returned

txvars == <<tx, rcVersion, last>>
eqvars == <<lhs, rhs, cmp>>
mvars == <<m_nodeListWithTheTransaction, writer, readers, pc, call, result,
           completed, mustSee>>
cvars == <<codecArg, codecRet>>
vars == <<txvars, eqvars, mvars, cvars>>

\* ------------------------------------------------------------ constructors
\* Transaction() {}
NullTx ==
    [m_type |-> NullTransaction, m_nonce |-> 0, m_value |-> 0,
     m_receiveAddress |-> NullAddress, m_gasPrice |-> 0, m_gas |-> 0,
     m_data |-> EmptyBytes, m_vrs |-> NoSignature, m_hashWith |-> ZeroHash,
     m_sender |-> NullAddress, m_blockLimit |-> 0, m_importTime |-> 0,
     m_rlpBuffer |-> EmptyBytes, m_chainId |-> 0, m_groupId |-> 0,
     m_extraData |-> EmptyBytes, m_rpcTx |-> FALSE, m_synced |-> FALSE]

\* Transaction(_value, _gasPrice, _gas, _dest, _data, _nonce, _chainId, _groupId)
MessageCallTx(value, gasPrice, gas, dest, data, nonce, chainId, groupId) ==
    [NullTx EXCEPT !.m_type = MessageCall, !.m_nonce = nonce, !.m_value = value,
                   !.m_receiveAddress = dest, !.m_gasPrice = gasPrice,
                   !.m_gas = gas, !.m_data = data, !.m_rlpBuffer = EmptyBytes,
                   !.m_chainId = chainId, !.m_groupId = groupId]

\* Transaction(_value, _gasPrice, _gas, _data, _nonce, _chainId, _groupId)
ContractCreationTx(value, gasPrice, gas, data, nonce, chainId, groupId) ==
    [NullTx EXCEPT !.m_type = ContractCreation, !.m_nonce = nonce,
                   !.m_value = value, !.m_gasPrice = gasPrice, !.m_gas = gas,
                   !.m_data = data, !.m_rlpBuffer = EmptyBytes,
                   !.m_chainId = chainId, !.m_groupId = groupId]

\* ------------------------------------------------------------------ setters
hasSignature(t) == t.m_vrs # NoSignature

isZeroSignature(r, s) == r = 0 /\ s = 0

hasZeroSignature(t) == hasSignature(t) /\ isZeroSignature(t.m_vrs[2], t.m_vrs[3])

\* clearSignature without the reset of m_sender.
clearSignature_keepsSender(t) == [t EXCEPT !.m_vrs = NoSignature]

clearSignature(t) ==
    [t EXCEPT !.m_vrs = NoSignature, !.m_sender = NullAddress]

setNonce(t, n) ==
    [clearSignature(t) EXCEPT !.m_nonce = n, !.m_hashWith = ZeroHash,
                              !.m_rlpBuffer = EmptyBytes]

setBlockLimit(t, b) ==
    [clearSignature(t) EXCEPT !.m_blockLimit = b, !.m_hashWith = ZeroHash,
                              !.m_rlpBuffer = EmptyBytes]

\* updateSignature without the reset of m_sender.
updateSignature_keepsSender(t, sig) ==
    [t EXCEPT !.m_vrs = sig, !.m_hashWith = ZeroHash, !.m_rlpBuffer = EmptyBytes]

updateSignature(t, sig) ==
    [t EXCEPT !.m_vrs = sig, !.m_hashWith = ZeroHash,
              !.m_sender = NullAddress, !.m_rlpBuffer = EmptyBytes]

\* setReceiveAddress without the reset of m_hashWith.
setReceiveAddress_keepsHash(t, a) ==
    [t EXCEPT !.m_rlpBuffer = EmptyBytes, !.m_receiveAddress = a]

setReceiveAddress(t, a) ==
    [t EXCEPT !.m_hashWith = ZeroHash, !.m_rlpBuffer = EmptyBytes,
              !.m_receiveAddress = a]

\* setData written like setNonce: it clears the signature as well.
setData_clearsSignature(t, d) ==
    [clearSignature(t) EXCEPT !.m_hashWith = ZeroHash, !.m_rlpBuffer = EmptyBytes,
                              !.m_data = d]

setData(t, d) ==
    [t EXCEPT !.m_hashWith = ZeroHash, !.m_rlpBuffer = EmptyBytes, !.m_data = d]

setChainId(t, c) ==
    [t EXCEPT !.m_hashWith = ZeroHash, !.m_rlpBuffer = EmptyBytes, !.m_chainId = c]

setGroupId(t, g) ==
    [t EXCEPT !.m_hashWith = ZeroHash, !.m_rlpBuffer = EmptyBytes, !.m_groupId = g]

\* setType without the reset of the two caches.
setType_keepsCaches(t, ty) == [t EXCEPT !.m_type = ty]

setType(t, ty) ==
    [t EXCEPT !.m_hashWith = ZeroHash, !.m_rlpBuffer = EmptyBytes, !.m_type = ty]

\* setImportTime written like a wire setter: it resets two caches as well.
setImportTime_resetsCaches(t, x) ==
    [t EXCEPT !.m_hashWith = ZeroHash, !.m_rlpBuffer = EmptyBytes,
              !.m_importTime = x]

setImportTime(t, x) == [t EXCEPT !.m_importTime = x]

setRpcTx(t, b) == [t EXCEPT !.m_rpcTx = b]

setSynced(t, b) == [t EXCEPT !.m_synced = b]

forceSender(t, a) == [t EXCEPT !.m_sender = a]

\* operator== that compares the nonce as well.
TxEq_withNonce(a, b) ==
    /\ a.m_type = b.m_type
    /\ (a.m_type = ContractCreation \/ a.m_receiveAddress = b.m_receiveAddress)
    /\ a.m_value = b.m_value
    /\ a.m_data = b.m_data
    /\ a.m_nonce = b.m_nonce

\* bool operator==(Transaction const& _c) const
TxEq(a, b) ==
    /\ a.m_type = b.m_type
    /\ (a.m_type = ContractCreation \/ a.m_receiveAddress = b.m_receiveAddress)
    /\ a.m_value = b.m_value
    /\ a.m_data = b.m_data

\* bool operator!=(Transaction const& _c) const
TxNeq(a, b) == ~TxEq(a, b)

\* ---------------------------------------------------- signature capability
\* crypto::Hash over a byte string: the digest stands for its preimage.
Hash(bytes) == <<bytes>>

RECURSIVE SumSeq(_)
SumSeq(s) == IF s = <<>> THEN 0 ELSE Head(s) + 1 + SumSeq(Tail(s))

RECURSIVE Weight(_)
Weight(items) ==
    IF items = <<>> THEN 0 ELSE SumSeq(Head(items)) + 1 + Weight(Tail(items))

\* recover(digest, Signature) -> Address | RecoveryError.  Recovery fails on
\* the zero signature; otherwise the address depends on the digest and on
\* the signature.
Recover(digest, sig) ==
    IF isZeroSignature(sig[2], sig[3])
    THEN [ok |-> FALSE, addr |-> NullAddress]
    ELSE [ok |-> TRUE, addr |-> 1 + ((Weight(digest[1]) + sig[2]) % NumSenders)]

\* -------------------------------------------------------------------- codec
\* RLP of an unsigned integer: zero is the empty string.
IntItem(n) == IF n = 0 THEN <<>> ELSE <<n>>

ItemInt(it) == IF it = <<>> THEN 0 ELSE it[1]

SigItems(sig) == <<IntItem(sig[1]), IntItem(sig[2]), IntItem(sig[3])>>

\* The destination written for every kind of transaction.
DestItem_always(t) == <<t.m_receiveAddress>>

DestItem(t) == IF t.m_type = MessageCall THEN <<t.m_receiveAddress>> ELSE <<>>

FieldsRC1(t) ==
    <<IntItem(t.m_nonce), IntItem(t.m_gasPrice), IntItem(t.m_gas),
      IntItem(t.m_blockLimit), DestItem(t), IntItem(t.m_value), t.m_data>>

FieldsRC2(t) ==
    FieldsRC1(t) \o <<IntItem(t.m_chainId), IntItem(t.m_groupId), t.m_extraData>>

\* void encodeRC1(bytes& _trans, IncludeSignature _sig) const
encodeRC1(t, sig) ==
    IF sig = WithSignature /\ ~hasSignature(t)
    THEN [err |-> "TransactionIsUnsigned", bytes |-> EmptyBytes]
    ELSE [err |-> "none",
          bytes |-> IF sig = WithSignature
                    THEN FieldsRC1(t) \o SigItems(t.m_vrs)
                    ELSE FieldsRC1(t)]

\* void encodeRC2(bytes& _trans, IncludeSignature _sig) const
encodeRC2(t, sig) ==
    IF sig = WithSignature /\ ~hasSignature(t)
    THEN [err |-> "TransactionIsUnsigned", bytes |-> EmptyBytes]
    ELSE [err |-> "none",
          bytes |-> IF sig = WithSignature
                    THEN FieldsRC2(t) \o SigItems(t.m_vrs)
                    ELSE FieldsRC2(t)]

\* void encode(bytes& _trans, IncludeSignature _sig) const
encode(t, sig, ver) == IF ver = 2 THEN encodeRC2(t, sig) ELSE encodeRC1(t, sig)

\* rlp that returns no bytes, and no error, when encode fails.
rlp_swallowsError(t, sig, ver) ==
    IF t.m_rlpBuffer # EmptyBytes
    THEN [err |-> "none", bytes |-> t.m_rlpBuffer]
    ELSE [err |-> "none", bytes |-> encode(t, sig, ver).bytes]

\* bytes rlp(IncludeSignature _sig) const
rlp(t, sig, ver) ==
    IF t.m_rlpBuffer # EmptyBytes
    THEN [err |-> "none", bytes |-> t.m_rlpBuffer]
    ELSE encode(t, sig, ver)

\* h256 hash(IncludeSignature _sig) const: the result and the object after
\* the call (m_hashWith is mutable).
hash(t, sig, ver) ==
    IF sig = WithSignature /\ t.m_hashWith # ZeroHash
    THEN [err |-> "none", val |-> t.m_hashWith, tx |-> t]
    ELSE LET e == encode(t, sig, ver) IN
         IF e.err # "none"
         THEN [err |-> e.err, val |-> ZeroHash, tx |-> t]
         ELSE [err |-> "none", val |-> Hash(e.bytes),
               tx |-> IF sig = WithSignature
                      THEN [t EXCEPT !.m_hashWith = Hash(e.bytes)]
                      ELSE t]

\* Address const& sender() const: the result and the object after the call
\* (m_sender is mutable).
sender(t, ver) ==
    IF t.m_sender # NullAddress
    THEN [err |-> "none", val |-> t.m_sender, tx |-> t]
    ELSE IF ~hasSignature(t)
    THEN [err |-> "TransactionIsUnsigned", val |-> NullAddress, tx |-> t]
    ELSE LET r == Recover(hash(t, WithoutSignature, ver).val, t.m_vrs) IN
         IF ~r.ok
         THEN [err |-> "RecoveryFailure", val |-> NullAddress, tx |-> t]
         ELSE [err |-> "none", val |-> r.addr,
               tx |-> [t EXCEPT !.m_sender = r.addr]]

\* safeSender that lets the failure of sender() through.
safeSender_throws(t, ver) == sender(t, ver)

\* Address const& safeSender() const noexcept
safeSender(t, ver) ==
    LET s == sender(t, ver) IN
    IF s.err = "none" THEN s ELSE [err |-> "none", val |-> NullAddress, tx |-> t]

\* The three signature fields at the end of a decoded list, if it has them.
DecodedSig(items, n) ==
    IF Len(items) = n + c_sigCount
    THEN <<ItemInt(items[n + 1]), ItemInt(items[n + 2]), ItemInt(items[n + 3])>>
    ELSE NoSignature

\* The fields both formats carry, read from the list into the object.
DecodedCommon(t, items) ==
    [t EXCEPT !.m_nonce = ItemInt(items[1]), !.m_gasPrice = ItemInt(items[2]),
              !.m_gas = ItemInt(items[3]), !.m_blockLimit = ItemInt(items[4]),
              !.m_type = IF items[5] = <<>> THEN ContractCreation ELSE MessageCall,
              !.m_receiveAddress = IF items[5] = <<>> THEN NullAddress ELSE items[5][1],
              !.m_value = ItemInt(items[6]), !.m_data = items[7],
              !.m_hashWith = ZeroHash, !.m_sender = NullAddress,
              !.m_rlpBuffer = EmptyBytes]

\* What both decode paths do once the fields are read: the signature checks
\* of the check level, and the cache of the origin bytes.
DecodeFinish(t, d, items, check, ver) ==
    IF check # "None" /\ hasZeroSignature(d)
    THEN [err |-> "SignatureInvalid", tx |-> t]
    ELSE LET s == sender(d, ver)
             c == IF check = "Everything" THEN s.tx ELSE d
             e == encode(c, WithSignature, ver)
         IN  IF check = "Everything" /\ s.err # "none"
             THEN [err |-> s.err, tx |-> t]
             ELSE [err |-> "none",
                   tx |-> IF e.err = "none" /\ e.bytes = items
                          THEN [c EXCEPT !.m_rlpBuffer = items]
                          ELSE c]

\* void decodeRC1(RLP const& rlp, CheckTransaction _checkSig)
decodeRC1(t, items, check, ver) ==
    LET n == c_fieldCountRC1WithOutSig
        d == [DecodedCommon(t, items) EXCEPT !.m_vrs = DecodedSig(items, n)]
    IN  DecodeFinish(t, d, items, check, ver)

\* void decodeRC2(RLP const& rlp, CheckTransaction _checkSig)
decodeRC2(t, items, check, ver) ==
    LET n == c_fieldCountRC2WithOutSig
        d == [DecodedCommon(t, items) EXCEPT
                 !.m_chainId = ItemInt(items[8]), !.m_groupId = ItemInt(items[9]),
                 !.m_extraData = items[10], !.m_vrs = DecodedSig(items, n)]
    IN  DecodeFinish(t, d, items, check, ver)

\* The choice of the path with no upper limit on the field count.
DecodePath_noUpperLimit(count, ver) ==
    IF count = c_fieldCountRC1WithOutSig THEN "RC1"
    ELSE IF count >= c_fieldCountRC2WithOutSig + c_sigCount THEN "RC2"
    ELSE IF count = c_fieldCountRC1WithOutSig + c_sigCount
    THEN (IF ver = 2 THEN "RC2" ELSE "RC1")
    ELSE "none"

\* The decode path chosen from the field count: 7 is RC1, 13 is RC2, 10 is
\* RC1 with a signature or RC2 without one, as the configured version says.
DecodePath(count, ver) ==
    IF count = c_fieldCountRC1WithOutSig THEN "RC1"
    ELSE IF count = c_fieldCountRC2WithOutSig + c_sigCount THEN "RC2"
    ELSE IF count = c_fieldCountRC1WithOutSig + c_sigCount
    THEN (IF ver = 2 THEN "RC2" ELSE "RC1")
    ELSE "none"

\* void decode(RLP const& rlp, CheckTransaction _checkSig)
decode(t, items, check, ver) ==
    LET path == DecodePath(Len(items), ver) IN
    IF path = "RC1" THEN decodeRC1(t, items, check, ver)
    ELSE IF path = "RC2" THEN decodeRC2(t, items, check, ver)
    ELSE [err |-> "DecodeError", tx |-> t]


\* ------------------------------------------------------------------ inputs
\* Byte strings handed to decode: a message call in both formats, unsigned,
\* with the zero signature and with a recoverable one; a contract creation
\* in both formats with a recoverable signature; and two lists of a wrong
\* field count.
SampleCall == setBlockLimit(MessageCallTx(0, 0, 0, MaxAddr, <<1>>, 1, 1, 1), 1)

SampleCreation == ContractCreationTx(0, 0, 0, EmptyBytes, 0, 1, 1)

SampleSignature == <<0, MaxSig, MaxSig>>

DecodeInputs ==
    {FieldsRC1(SampleCall), FieldsRC2(SampleCall)}
    \cup {f \o SigItems(sig) :
            f \in {FieldsRC1(SampleCall), FieldsRC2(SampleCall)},
            sig \in {<<0, 0, 0>>, SampleSignature}}
    \cup {f \o SigItems(SampleSignature) :
            f \in {FieldsRC1(SampleCreation), FieldsRC2(SampleCreation)}}
    \cup {SubSeq(FieldsRC1(SampleCall), 1, 6), FieldsRC2(SampleCall) \o <<EmptyBytes>>}

\* ----------------------------------------------------------------- actions
TxInit ==
    /\ tx = NullTx
    /\ rcVersion \in {1, 2}
    /\ last = "other"

ConstructNull ==
    /\ tx' = NullTx
    /\ last' = "other"
    /\ UNCHANGED <<rcVersion, eqvars, mvars, cvars>>

ConstructMessageCall ==
    /\ \E value \in Values, gasPrice \in GasPrices, gas \in Gases,
          dest \in Addresses, data \in Datas, nonce \in U256 :
          tx' = MessageCallTx(value, gasPrice, gas, dest, data, nonce, 1, 1)
    /\ last' = "other"
    /\ UNCHANGED <<rcVersion, eqvars, mvars, cvars>>

ConstructContractCreation ==
    /\ \E value \in Values, gasPrice \in GasPrices, gas \in Gases,
          data \in Datas, nonce \in U256 :
          tx' = ContractCreationTx(value, gasPrice, gas, data, nonce, 1, 1)
    /\ last' = "other"
    /\ UNCHANGED <<rcVersion, eqvars, mvars, cvars>>

\* decode(tx_bytes, _checkSig); Transaction(_rlp, _checkSig) is a decode into
\* a freshly constructed object.
Decode ==
    /\ \E items \in DecodeInputs, check \in CheckLevels :
          LET r == decode(tx, items, check, rcVersion) IN
          /\ tx' = r.tx
          /\ last' = "other"
    /\ UNCHANGED <<rcVersion, eqvars, mvars, cvars>>

SetNonce ==
    /\ \E n \in U256 : tx' = setNonce(tx, n)
    /\ last' = "setNonce"
    /\ UNCHANGED <<rcVersion, eqvars, mvars, cvars>>

SetBlockLimit ==
    /\ \E b \in U256 : tx' = setBlockLimit(tx, b)
    /\ last' = "setBlockLimit"
    /\ UNCHANGED <<rcVersion, eqvars, mvars, cvars>>

UpdateSignature ==
    /\ \E sig \in Signatures : tx' = updateSignature(tx, sig)
    /\ last' = "updateSignature"
    /\ UNCHANGED <<rcVersion, eqvars, mvars, cvars>>

SetReceiveAddress ==
    /\ \E a \in Addresses : tx' = setReceiveAddress(tx, a)
    /\ last' = "setReceiveAddress"
    /\ UNCHANGED <<rcVersion, eqvars, mvars, cvars>>

SetData ==
    /\ \E d \in Datas : tx' = setData(tx, d)
    /\ last' = "setData"
    /\ UNCHANGED <<rcVersion, eqvars, mvars, cvars>>

SetChainId ==
    /\ \E c \in Ids : tx' = setChainId(tx, c)
    /\ last' = "setChainId"
    /\ UNCHANGED <<rcVersion, eqvars, mvars, cvars>>

SetGroupId ==
    /\ \E g \in Ids : tx' = setGroupId(tx, g)
    /\ last' = "setGroupId"
    /\ UNCHANGED <<rcVersion, eqvars, mvars, cvars>>

SetType ==
    /\ \E ty \in Types : tx' = setType(tx, ty)
    /\ last' = "setType"
    /\ UNCHANGED <<rcVersion, eqvars, mvars, cvars>>

SetImportTime ==
    /\ \E x \in U256 : tx' = setImportTime(tx, x)
    /\ last' = "setImportTime"
    /\ UNCHANGED <<rcVersion, eqvars, mvars, cvars>>

SetRpcTx ==
    /\ \E b \in BOOLEAN : tx' = setRpcTx(tx, b)
    /\ last' = "setRpcTx"
    /\ UNCHANGED <<rcVersion, eqvars, mvars, cvars>>

SetSynced ==
    /\ \E b \in BOOLEAN : tx' = setSynced(tx, b)
    /\ last' = "setSynced"
    /\ UNCHANGED <<rcVersion, eqvars, mvars, cvars>>

ForceSender ==
    /\ \E a \in Addresses : tx' = forceSender(tx, a)
    /\ last' = "other"
    /\ UNCHANGED <<rcVersion, eqvars, mvars, cvars>>

Sender ==
    /\ LET r == sender(tx, rcVersion) IN
          /\ tx' = r.tx
          /\ last' = "other"
    /\ UNCHANGED <<rcVersion, eqvars, mvars, cvars>>

SafeSender ==
    /\ LET r == safeSender(tx, rcVersion) IN
          /\ tx' = r.tx
          /\ last' = "other"
    /\ UNCHANGED <<rcVersion, eqvars, mvars, cvars>>

HashCall ==
    /\ \E sig \in {WithoutSignature, WithSignature} :
          LET r == hash(tx, sig, rcVersion) IN
          /\ tx' = r.tx
          /\ last' = "other"
    /\ UNCHANGED <<rcVersion, eqvars, mvars, cvars>>

RlpCall ==
    /\ \E sig \in {WithoutSignature, WithSignature} :
          LET r == rlp(tx, sig, rcVersion) IN
          /\ r.err \in {"none", "TransactionIsUnsigned"}
          /\ last' = "other"
    /\ UNCHANGED <<tx, rcVersion, eqvars, mvars, cvars>>

TxNext ==
    \/ ConstructNull
    \/ ConstructMessageCall
    \/ ConstructContractCreation
    \/ Decode
    \/ SetNonce
    \/ SetBlockLimit
    \/ UpdateSignature
    \/ SetReceiveAddress
    \/ SetData
    \/ SetChainId
    \/ SetGroupId
    \/ SetType
    \/ ForceSender
    \/ Sender
    \/ SafeSender
    \/ HashCall
    \/ RlpCall


\* ------------------------------------------------------ NodeTransactionMarker
\* appendNodeContainsTransaction under a ReadGuard.
GuardOf_appendShared(op) ==
    IF op \in {"appendNodeListContainTransaction", "clear"}
    THEN "WriteGuard" ELSE "ReadGuard"

\* clear under a ReadGuard.
GuardOf_clearShared(op) ==
    IF op \in {"appendNodeContainsTransaction", "appendNodeListContainTransaction"}
    THEN "WriteGuard" ELSE "ReadGuard"

\* appendNodeListContainTransaction under a ReadGuard.
GuardOf_listShared(op) ==
    IF op \in {"appendNodeContainsTransaction", "clear"}
    THEN "WriteGuard" ELSE "ReadGuard"

\* The guard each member function of the marker takes on
\* x_nodeListWithTheTransaction.
GuardOf(op) ==
    CASE op = "appendNodeContainsTransaction" -> "WriteGuard"
      [] op = "appendNodeListContainTransaction" -> "WriteGuard"
      [] op = "isTheNodeContainsTransaction" -> "ReadGuard"
      [] op = "isKnownBySomeone" -> "ReadGuard"
      [] op = "clear" -> "WriteGuard"

\* dev::SharedMutex: exclusive to one WriteGuard, shared among ReadGuards.
CanLock(guard, w, rs) ==
    IF guard = "WriteGuard" THEN w = NoThread /\ rs = {} ELSE w = NoThread

\* The lists handed to appendNodeListContainTransaction: no peer, one peer,
\* and two peers in either order or twice the same.
NodeLists == {<<>>} \cup {<<p>> : p \in Peers} \cup {<<p, q>> : p \in Peers, q \in Peers}

RECURSIVE SeqRange(_)
SeqRange(s) == IF s = <<>> THEN {} ELSE {Head(s)} \cup SeqRange(Tail(s))

NoCall == [op |-> "none", node |-> 0, list |-> <<>>, i |-> 0]

Calls ==
    {[op |-> "appendNodeContainsTransaction", node |-> p, list |-> <<>>, i |-> 0] :
        p \in Peers}
    \cup {[op |-> "appendNodeListContainTransaction", node |-> 0, list |-> l, i |-> 1] :
        l \in NodeLists}
    \cup {[op |-> "isTheNodeContainsTransaction", node |-> p, list |-> <<>>, i |-> 0] :
        p \in Peers}
    \cup {[op |-> "isKnownBySomeone", node |-> 0, list |-> <<>>, i |-> 0],
          [op |-> "clear", node |-> 0, list |-> <<>>, i |-> 0]}

\* A thread is inside the critical section of its call: between the
\* construction of its guard and the guard's destructor.
InCritical(t) == pc[t] \in {"body", "unlock"}

\* The member functions that modify the std::set.
Modifies(op) ==
    op \in {"appendNodeContainsTransaction", "appendNodeListContainTransaction", "clear"}

\* std::set is not thread-safe: a modification made while another thread is
\* inside a member function, and a read made while another thread is inside a
\* modifying one, are data races with any outcome.
WriteRaces(t) == \E u \in Threads \ {t} : InCritical(u)

ReadRaces(t) == \E u \in Threads \ {t} : InCritical(u) /\ Modifies(call[u].op)

SetAfter(t, s) == IF WriteRaces(t) THEN SUBSET Peers ELSE {s}

ReadAfter(t, b) ==
    IF ReadRaces(t) THEN {"true", "false"} ELSE {IF b THEN "true" ELSE "false"}

MarkerIdle ==
    /\ m_nodeListWithTheTransaction = {}
    /\ writer = NoThread
    /\ readers = {}
    /\ pc = [t \in Threads |-> "idle"]
    /\ call = [t \in Threads |-> NoCall]
    /\ result = [t \in Threads |-> "none"]
    /\ completed = {}
    /\ mustSee = [t \in Threads |-> FALSE]

\* A thread calls a member function of the marker, with arguments among cs.
CallOf(t, cs) ==
    /\ pc[t] = "idle"
    /\ \E c \in cs :
          /\ call' = [call EXCEPT ![t] = c]
          /\ mustSee' = [mustSee EXCEPT ![t] =
                 c.op = "isTheNodeContainsTransaction" /\ c.node \in completed]
    /\ pc' = [pc EXCEPT ![t] = "lock"]
    /\ UNCHANGED <<m_nodeListWithTheTransaction, writer, readers, result, completed>>
    /\ UNCHANGED <<txvars, eqvars, cvars>>

Call(t) == CallOf(t, Calls)

\* WriteGuard l(x_nodeListWithTheTransaction)
WriteGuardLock(t) ==
    /\ pc[t] = "lock"
    /\ GuardOf(call[t].op) = "WriteGuard"
    /\ CanLock("WriteGuard", writer, readers)
    /\ writer' = t
    /\ pc' = [pc EXCEPT ![t] = "body"]
    /\ UNCHANGED <<m_nodeListWithTheTransaction, readers, call, result, completed, mustSee>>
    /\ UNCHANGED <<txvars, eqvars, cvars>>

\* ReadGuard l(x_nodeListWithTheTransaction)
ReadGuardLock(t) ==
    /\ pc[t] = "lock"
    /\ GuardOf(call[t].op) = "ReadGuard"
    /\ CanLock("ReadGuard", writer, readers)
    /\ readers' = readers \cup {t}
    /\ pc' = [pc EXCEPT ![t] = "body"]
    /\ UNCHANGED <<m_nodeListWithTheTransaction, writer, call, result, completed, mustSee>>
    /\ UNCHANGED <<txvars, eqvars, cvars>>

\* appendNodeContainsTransaction that assigns the set instead of inserting.
appendNodeContainsTransaction_assigns(t) ==
    /\ pc[t] = "body"
    /\ call[t].op = "appendNodeContainsTransaction"
    /\ m_nodeListWithTheTransaction' \in SetAfter(t, {call[t].node})
    /\ pc' = [pc EXCEPT ![t] = "unlock"]
    /\ UNCHANGED <<writer, readers, call, result, completed, mustSee>>
    /\ UNCHANGED <<txvars, eqvars, cvars>>

\* m_nodeListWithTheTransaction.insert(_node)
appendNodeContainsTransaction(t) ==
    /\ pc[t] = "body"
    /\ call[t].op = "appendNodeContainsTransaction"
    /\ m_nodeListWithTheTransaction' \in
           SetAfter(t, m_nodeListWithTheTransaction \cup {call[t].node})
    /\ pc' = [pc EXCEPT ![t] = "unlock"]
    /\ UNCHANGED <<writer, readers, call, result, completed, mustSee>>
    /\ UNCHANGED <<txvars, eqvars, cvars>>

\* appendNodeListContainTransaction whose loop ends at the first peer that is
\* in the set already.
appendNodeListContainTransaction_stopsAtKnown(t) ==
    /\ pc[t] = "body"
    /\ call[t].op = "appendNodeListContainTransaction"
    /\ IF /\ call[t].i <= Len(call[t].list)
          /\ call[t].list[call[t].i] \notin m_nodeListWithTheTransaction
       THEN /\ m_nodeListWithTheTransaction' \in
                   SetAfter(t, m_nodeListWithTheTransaction \cup {call[t].list[call[t].i]})
            /\ call' = [call EXCEPT ![t].i = @ + 1]
            /\ pc' = pc
       ELSE /\ pc' = [pc EXCEPT ![t] = "unlock"]
            /\ UNCHANGED <<m_nodeListWithTheTransaction, call>>
    /\ UNCHANGED <<writer, readers, result, completed, mustSee>>
    /\ UNCHANGED <<txvars, eqvars, cvars>>

\* for (auto const& node : _nodeList) m_nodeListWithTheTransaction.insert(node):
\* one iteration, or the end of the loop.
appendNodeListContainTransaction(t) ==
    /\ pc[t] = "body"
    /\ call[t].op = "appendNodeListContainTransaction"
    /\ IF call[t].i <= Len(call[t].list)
       THEN /\ m_nodeListWithTheTransaction' \in
                   SetAfter(t, m_nodeListWithTheTransaction \cup {call[t].list[call[t].i]})
            /\ call' = [call EXCEPT ![t].i = @ + 1]
            /\ pc' = pc
       ELSE /\ pc' = [pc EXCEPT ![t] = "unlock"]
            /\ UNCHANGED <<m_nodeListWithTheTransaction, call>>
    /\ UNCHANGED <<writer, readers, result, completed, mustSee>>
    /\ UNCHANGED <<txvars, eqvars, cvars>>

\* return m_nodeListWithTheTransaction.count(_node)
isTheNodeContainsTransaction(t) ==
    /\ pc[t] = "body"
    /\ call[t].op = "isTheNodeContainsTransaction"
    /\ \E r \in ReadAfter(t, call[t].node \in m_nodeListWithTheTransaction) :
          result' = [result EXCEPT ![t] = r]
    /\ pc' = [pc EXCEPT ![t] = "unlock"]
    /\ UNCHANGED <<m_nodeListWithTheTransaction, writer, readers, call, completed, mustSee>>
    /\ UNCHANGED <<txvars, eqvars, cvars>>

\* isKnownBySomeone without the negation.
isKnownBySomeone_notNegated(t) ==
    /\ pc[t] = "body"
    /\ call[t].op = "isKnownBySomeone"
    /\ \E r \in ReadAfter(t, m_nodeListWithTheTransaction = {}) :
          result' = [result EXCEPT ![t] = r]
    /\ pc' = [pc EXCEPT ![t] = "unlock"]
    /\ UNCHANGED <<m_nodeListWithTheTransaction, writer, readers, call, completed, mustSee>>
    /\ UNCHANGED <<txvars, eqvars, cvars>>

\* return !m_nodeListWithTheTransaction.empty()
isKnownBySomeone(t) ==
    /\ pc[t] = "body"
    /\ call[t].op = "isKnownBySomeone"
    /\ \E r \in ReadAfter(t, m_nodeListWithTheTransaction # {}) :
          result' = [result EXCEPT ![t] = r]
    /\ pc' = [pc EXCEPT ![t] = "unlock"]
    /\ UNCHANGED <<m_nodeListWithTheTransaction, writer, readers, call, completed, mustSee>>
    /\ UNCHANGED <<txvars, eqvars, cvars>>

\* m_nodeListWithTheTransaction.clear()
clear(t) ==
    /\ pc[t] = "body"
    /\ call[t].op = "clear"
    /\ m_nodeListWithTheTransaction' \in SetAfter(t, {})
    /\ completed' = {}
    /\ mustSee' = [u \in Threads |-> FALSE]
    /\ pc' = [pc EXCEPT ![t] = "unlock"]
    /\ UNCHANGED <<writer, readers, call, result>>
    /\ UNCHANGED <<txvars, eqvars, cvars>>

\* A return that leaves an exclusive lock held.
Unlock_keepsWriter(t) ==
    /\ pc[t] = "unlock"
    /\ readers' = readers \ {t}
    /\ completed' =
           IF call[t].op = "appendNodeContainsTransaction"
           THEN completed \cup {call[t].node}
           ELSE IF call[t].op = "appendNodeListContainTransaction"
           THEN completed \cup SeqRange(call[t].list)
           ELSE completed
    /\ pc' = [pc EXCEPT ![t] = "idle"]
    /\ call' = [call EXCEPT ![t] = NoCall]
    /\ result' = [result EXCEPT ![t] = "none"]
    /\ mustSee' = [mustSee EXCEPT ![t] = FALSE]
    /\ UNCHANGED <<m_nodeListWithTheTransaction, writer>>
    /\ UNCHANGED <<txvars, eqvars, cvars>>

\* The guard's destructor, and the return of the call.
Unlock(t) ==
    /\ pc[t] = "unlock"
    /\ writer' = IF writer = t THEN NoThread ELSE writer
    /\ readers' = readers \ {t}
    /\ completed' =
           IF call[t].op = "appendNodeContainsTransaction"
           THEN completed \cup {call[t].node}
           ELSE IF call[t].op = "appendNodeListContainTransaction"
           THEN completed \cup SeqRange(call[t].list)
           ELSE completed
    /\ pc' = [pc EXCEPT ![t] = "idle"]
    /\ call' = [call EXCEPT ![t] = NoCall]
    /\ result' = [result EXCEPT ![t] = "none"]
    /\ mustSee' = [mustSee EXCEPT ![t] = FALSE]
    /\ UNCHANGED m_nodeListWithTheTransaction
    /\ UNCHANGED <<txvars, eqvars, cvars>>

MarkerNext ==
    \E t \in Threads :
        \/ Call(t)
        \/ WriteGuardLock(t)
        \/ ReadGuardLock(t)
        \/ appendNodeContainsTransaction(t)
        \/ appendNodeListContainTransaction(t)
        \/ isTheNodeContainsTransaction(t)
        \/ isKnownBySomeone(t)
        \/ clear(t)
        \/ Unlock(t)

\* What a thread does between taking its guard and releasing it.
Body(t) ==
    \/ appendNodeContainsTransaction(t)
    \/ appendNodeListContainTransaction(t)
    \/ isTheNodeContainsTransaction(t)
    \/ isKnownBySomeone(t)
    \/ clear(t)

\* The scheduler: a thread that holds its guard keeps running until it has
\* released it, and a thread that waits for a guard it could take again and
\* again takes it in the end.  No thread has to call the marker.
MarkerFairness ==
    \A t \in Threads :
        /\ WF_vars(Body(t) \/ Unlock(t))
        /\ SF_vars(WriteGuardLock(t) \/ ReadGuardLock(t))

\* ------------------------------------------------------------- comparison
NotCompared == [done |-> FALSE, eq |-> FALSE, neq |-> FALSE]

EqIdle ==
    /\ lhs = NullTx
    /\ rhs = NullTx
    /\ cmp = NotCompared

\* The fields operator== does not read, set from one number: the nonce, the
\* gas price, the gas limit, the block limit, the chain and group id, and a
\* signature when the number is not zero.
WithOthers(t, k) ==
    LET u == setGroupId(setChainId(setBlockLimit(
                 [t EXCEPT !.m_gasPrice = k, !.m_gas = k, !.m_nonce = k], k), k), k)
    IN  IF k = 0 THEN u ELSE updateSignature(u, <<0, MaxSig, MaxSig>>)

\* The operands: message calls of every value, destination and payload, and
\* the same after setType.
EqTxs ==
    {setType(WithOthers(MessageCallTx(v, 0, 0, a, d, 0, 1, 1), k), ty) :
        v \in U256, a \in Addresses, d \in Datas, k \in U256, ty \in Types}

EqInit ==
    /\ lhs \in EqTxs
    /\ rhs \in EqTxs
    /\ cmp = NotCompared

\* lhs == rhs and lhs != rhs
Compare ==
    /\ ~cmp.done
    /\ cmp' = [done |-> TRUE, eq |-> TxEq(lhs, rhs), neq |-> TxNeq(lhs, rhs)]
    /\ UNCHANGED <<lhs, rhs, txvars, mvars, cvars>>

EqNext == Compare

\* ------------------------------------------------------------------- codec
NoArg == [op |-> "none", t |-> NullTx, items |-> <<>>, check |-> "None"]

NoRet == [done |-> FALSE, err |-> "none", tx |-> NullTx]

CodecIdle ==
    /\ codecArg = NoArg
    /\ codecRet = NoRet

\* Two lists of one field more than a signed RC2 encoding has; the lists
\* handed to decode are their prefixes, of every length from none to all.
LongLists ==
    {FieldsRC2(SampleCall) \o SigItems(SampleSignature) \o <<EmptyBytes>>,
     FieldsRC1(SampleCreation) \o SigItems(<<0, 0, 0>>) \o SigItems(SampleSignature)
         \o <<EmptyBytes>>}

CountInputs == {SubSeq(l, 1, n) : l \in LongLists, n \in 0..(c_fieldCountRC2WithOutSig + c_sigCount + 1)}

\* The objects decoded into: a fresh one, and a signed contract creation.
DecodeTargets == {NullTx, updateSignature(SampleCreation, SampleSignature)}

\* Signed transactions of every kind, value, destination, payload, nonce and
\* block limit, the destination set on a contract creation as well.
RoundTripTxs ==
    {updateSignature(
         setBlockLimit(setType(MessageCallTx(v, 0, 0, a, d, n, 1, 1), ty), b), sig) :
        v \in U256, a \in Addresses, d \in Datas, n \in U256, b \in U256,
        ty \in Types, sig \in Signatures}

CodecInit ==
    /\ codecArg \in
          {[op |-> "decode", t |-> t, items |-> l, check |-> c] :
              t \in DecodeTargets, l \in CountInputs, c \in CheckLevels}
          \cup {[op |-> "roundtrip", t |-> t, items |-> <<>>, check |-> "Everything"] :
              t \in RoundTripTxs}
    /\ codecRet = NoRet

\* t.decode(items, check)
DecodeBytes ==
    /\ codecArg.op = "decode"
    /\ ~codecRet.done
    /\ LET r == decode(codecArg.t, codecArg.items, codecArg.check, rcVersion) IN
          codecRet' = [done |-> TRUE, err |-> r.err, tx |-> r.tx]
    /\ UNCHANGED <<codecArg, txvars, eqvars, mvars>>

\* Transaction(t.rlp(WithSignature), CheckTransaction::Everything)
RoundTrip ==
    /\ codecArg.op = "roundtrip"
    /\ ~codecRet.done
    /\ LET e == rlp(codecArg.t, WithSignature, rcVersion)
           r == decode(NullTx, e.bytes, codecArg.check, rcVersion)
       IN  codecRet' = IF e.err # "none"
                       THEN [done |-> TRUE, err |-> e.err, tx |-> NullTx]
                       ELSE [done |-> TRUE, err |-> r.err, tx |-> r.tx]
    /\ UNCHANGED <<codecArg, txvars, eqvars, mvars>>

CodecNext == DecodeBytes \/ RoundTrip

\* ---------------------------------------------------------- specifications
\* One transaction object under any sequence of calls by its owner.
Init == TxInit /\ EqIdle /\ MarkerIdle /\ CodecIdle
Next == TxNext
Spec == Init /\ [][Next]_vars

\* The same without forceSender.
NextNoForce ==
    \/ ConstructNull
    \/ ConstructMessageCall
    \/ ConstructContractCreation
    \/ Decode
    \/ SetNonce
    \/ SetBlockLimit
    \/ UpdateSignature
    \/ SetReceiveAddress
    \/ SetData
    \/ SetChainId
    \/ SetGroupId
    \/ SetType
    \/ Sender
    \/ SafeSender
    \/ HashCall
    \/ RlpCall
SpecNoForce == Init /\ [][NextNoForce]_vars

\* Two transactions compared.
InitEq ==
    tx = NullTx /\ rcVersion = 2 /\ last = "other" /\ EqInit /\ MarkerIdle /\ CodecIdle
SpecEq == InitEq /\ [][EqNext]_vars

\* One marker used by several threads at once.
MarkerInit ==
    tx = NullTx /\ rcVersion = 2 /\ last = "other" /\ EqIdle /\ MarkerIdle /\ CodecIdle
SpecMarker == MarkerInit /\ [][MarkerNext]_vars

\* The same under a fair scheduler, the list appends those of no peer and of
\* two peers.
FairCalls == {c \in Calls : c.list \in {<<>>, <<1, 2>>}}

MarkerFairNext ==
    \E t \in Threads :
        \/ CallOf(t, FairCalls)
        \/ WriteGuardLock(t)
        \/ ReadGuardLock(t)
        \/ Body(t)
        \/ Unlock(t)

SpecMarkerFair == MarkerInit /\ [][MarkerFairNext]_vars /\ MarkerFairness

\* One transaction and its own marker, m_nodeTransactionMarker, used by the
\* thread that owns the transaction.  The transaction is the one constructed
\* from the signed RC2 bytes of a message call, unchecked; its sender and its
\* hash are asked for, it is signed again, its nonce is set, its queue flags
\* are set, and the member functions of its marker are called.
Owner == "t1"

ImportedCall ==
    decode(NullTx, FieldsRC2(SampleCall) \o SigItems(SampleSignature), "None", 2).tx

InitFrame ==
    /\ tx = ImportedCall /\ rcVersion = 2 /\ last = "other"
    /\ EqIdle /\ MarkerIdle /\ CodecIdle

FrameNext ==
    \/ Sender
    \/ HashCall
    \/ SetNonce
    \/ UpdateSignature
    \/ SetImportTime
    \/ SetRpcTx
    \/ SetSynced
    \/ CallOf(Owner, FairCalls)
    \/ WriteGuardLock(Owner)
    \/ ReadGuardLock(Owner)
    \/ Body(Owner)
    \/ Unlock(Owner)

SpecFrame == InitFrame /\ [][FrameNext]_vars

\* The codec applied to one argument, under either configured version.
InitCodec ==
    /\ tx = NullTx /\ rcVersion \in {1, 2} /\ last = "other"
    /\ EqIdle /\ MarkerIdle /\ CodecInit
SpecCodec == InitCodec /\ [][CodecNext]_vars

\* ------------------------------------------------------------------ claims
\* The encoding of the current fields, with and without the signature.
SignedEncoding == encode(tx, WithSignature, rcVersion)
UnsignedEncoding == encode(tx, WithoutSignature, rcVersion)

\* What the signature capability recovers from the current signature and the
\* digest of the current unsigned encoding.
Recovered(t, ver) == Recover(Hash(encode(t, WithoutSignature, ver).bytes), t.m_vrs)

\* The object after a call that changed field f at most, besides resetting
\* the cached hash and the cached buffer.
OnlyCachesAnd(t, u, f) ==
    u = [t EXCEPT !.m_hashWith = ZeroHash, !.m_rlpBuffer = EmptyBytes, ![f] = u[f]]

AfterSignatureClear(t, ver) ==
    /\ ~hasSignature(t)
    /\ t.m_sender = NullAddress
    /\ t.m_hashWith = ZeroHash
    /\ t.m_rlpBuffer = EmptyBytes
    /\ sender(t, ver).err = "TransactionIsUnsigned"

\* C1: after setNonce(n) or setBlockLimit(b), from any state, the transaction
\* has no signature, the cached sender is null, the cached hash is zero, the
\* cached buffer is empty, the nonce (the block limit) is the argument, and
\* the next sender() fails with TransactionIsUnsigned.
C1_NonceAndBlockLimitClearSignature ==
    [][/\ \A n \in U256 :
            (last' = "setNonce" /\ tx' = setNonce(tx, n)) =>
                (AfterSignatureClear(tx', rcVersion) /\ tx'.m_nonce = n)
       /\ \A b \in U256 :
            (last' = "setBlockLimit" /\ tx' = setBlockLimit(tx, b)) =>
                (AfterSignatureClear(tx', rcVersion) /\ tx'.m_blockLimit = b)]_vars

C1_Witness ==
    /\ last = "setNonce"
    /\ tx.m_nonce = MaxU256
    /\ tx.m_type = MessageCall
    /\ ~hasSignature(tx)
    /\ sender(tx, rcVersion).err = "TransactionIsUnsigned"

\* C2: setReceiveAddress, setData, setChainId, setGroupId and setType reset
\* the cached hash and the cached buffer and change nothing else but the field
\* they set: the signature, the cached sender and every other field stay.
C2_WireSettersKeepSignature ==
    [][/\ last' = "setReceiveAddress" => OnlyCachesAnd(tx, tx', "m_receiveAddress")
       /\ last' = "setData" => OnlyCachesAnd(tx, tx', "m_data")
       /\ last' = "setChainId" => OnlyCachesAnd(tx, tx', "m_chainId")
       /\ last' = "setGroupId" => OnlyCachesAnd(tx, tx', "m_groupId")
       /\ last' = "setType" => OnlyCachesAnd(tx, tx', "m_type")]_vars

C2_Witness ==
    /\ last = "setData"
    /\ hasSignature(tx)
    /\ tx.m_sender # NullAddress
    /\ tx.m_hashWith = ZeroHash
    /\ tx.m_rlpBuffer = EmptyBytes

\* C3: in every reachable state a non-empty cached buffer is the signed
\* encoding of the current fields and signature, and a non-zero cached hash
\* is the digest of that encoding.
C3_CachesNeverStale ==
    /\ tx.m_rlpBuffer # EmptyBytes =>
          (SignedEncoding.err = "none" /\ tx.m_rlpBuffer = SignedEncoding.bytes)
    /\ tx.m_hashWith # ZeroHash =>
          (SignedEncoding.err = "none" /\ tx.m_hashWith = Hash(SignedEncoding.bytes))

C3_Witness ==
    /\ tx.m_rlpBuffer # EmptyBytes
    /\ tx.m_hashWith # ZeroHash
    /\ tx.m_type = MessageCall

\* C4: on a signed transaction, with forceSender never called, sender()
\* returns the address recovered from the current signature and the digest of
\* the current unsigned encoding, and fails when that recovery fails.
C4_SenderIsRecovered ==
    hasSignature(tx) =>
        LET s == sender(tx, rcVersion)
            r == Recovered(tx, rcVersion)
        IN  IF r.ok THEN s.err = "none" /\ s.val = r.addr ELSE s.err # "none"

\* C5: rlp(WithoutSignature) returns the unsigned encoding of the current
\* fields in every reachable state.
C5_RlpWithoutSignatureIsUnsigned ==
    LET r == rlp(tx, WithoutSignature, rcVersion) IN
    r.err = "none" /\ r.bytes = UnsignedEncoding.bytes

\* C6: updateSignature(sig) attaches sig, resets the cached hash, the cached
\* sender and the cached buffer and leaves every other field as it was; the
\* next hash(), sender() and rlp() are computed from the new signature.
C6_UpdateSignatureResetsCaches ==
    [][\A sig \in Signatures :
          (last' = "updateSignature" /\ tx' = updateSignature(tx, sig)) =>
              /\ tx' = [tx EXCEPT !.m_vrs = sig, !.m_hashWith = ZeroHash,
                                  !.m_sender = NullAddress,
                                  !.m_rlpBuffer = EmptyBytes]
              /\ LET e == encode(tx', WithSignature, rcVersion)
                     s == sender(tx', rcVersion)
                     r == Recovered(tx', rcVersion)
                 IN  /\ e.err = "none"
                     /\ hash(tx', WithSignature, rcVersion).val = Hash(e.bytes)
                     /\ rlp(tx', WithSignature, rcVersion).bytes = e.bytes
                     /\ IF r.ok THEN s.err = "none" /\ s.val = r.addr
                                ELSE s.err = "RecoveryFailure"]_vars

C6_Witness ==
    /\ last = "updateSignature"
    /\ tx.m_vrs = <<0, MaxSig, MaxSig>>
    /\ tx.m_type = MessageCall
    /\ tx.m_data # EmptyBytes

\* What the claim says operator== compares: the kind, the value, the payload
\* and, for a MessageCall only, the destination.
SameAsClaimed(a, b) ==
    /\ a.m_type = b.m_type
    /\ a.m_value = b.m_value
    /\ a.m_data = b.m_data
    /\ (a.m_type = MessageCall => a.m_receiveAddress = b.m_receiveAddress)

\* The same with the destination compared for every kind but ContractCreation.
SameAsAmended(a, b) ==
    /\ a.m_type = b.m_type
    /\ a.m_value = b.m_value
    /\ a.m_data = b.m_data
    /\ (a.m_type # ContractCreation => a.m_receiveAddress = b.m_receiveAddress)

\* C7 as claimed: a == b iff kind, value and payload agree and, only for a
\* MessageCall, the destination; a != b is the negation.
C7_EqualityAsClaimed ==
    cmp.done => (cmp.eq = SameAsClaimed(lhs, rhs) /\ cmp.neq = ~cmp.eq)

\* C7: a == b iff kind, value and payload agree and, unless the kind is
\* ContractCreation, the destination; the nonce, the gas fields, the block
\* limit, the chain and group id, the signature and the caches have no
\* influence, and a != b is the negation.
C7_EqualityIgnoresNonce ==
    cmp.done => (cmp.eq = SameAsAmended(lhs, rhs) /\ cmp.neq = ~cmp.eq)

C7_Witness ==
    /\ cmp.done
    /\ cmp.eq
    /\ lhs.m_type = MessageCall
    /\ lhs.m_nonce # rhs.m_nonce
    /\ hasSignature(lhs) # hasSignature(rhs)

\* C8 as claimed: after setReceiveAddress(a) with a not the current
\* destination, on a transaction of any kind whose signed hash was cached,
\* hash() differs from the cached value and hasSignature() is as before.
C8_HashChangesForAnyKind ==
    [][(/\ last' = "setReceiveAddress"
        /\ tx'.m_receiveAddress # tx.m_receiveAddress
        /\ tx.m_hashWith # ZeroHash) =>
            LET h == hash(tx', WithSignature, rcVersion) IN
            /\ h.err = "none"
            /\ h.val # tx.m_hashWith
            /\ hasSignature(tx') = hasSignature(tx)]_vars

\* C8: the same for a MessageCall transaction.
C8_HashChangesForMessageCall ==
    [][(/\ last' = "setReceiveAddress"
        /\ tx'.m_receiveAddress # tx.m_receiveAddress
        /\ tx.m_type = MessageCall
        /\ tx.m_hashWith # ZeroHash) =>
            LET h == hash(tx', WithSignature, rcVersion) IN
            /\ h.err = "none"
            /\ h.val # tx.m_hashWith
            /\ hasSignature(tx') = hasSignature(tx)]_vars

C8_Witness ==
    /\ last = "setReceiveAddress"
    /\ tx.m_type = MessageCall
    /\ tx.m_receiveAddress # NullAddress
    /\ hasSignature(tx)
    /\ tx.m_hashWith = ZeroHash

\* C9: a membership query that began after an append of its peer had
\* returned, with no clear() since, computes true.
C9_QueryAfterAppendIsTrue ==
    \A t \in Threads :
        (/\ pc[t] = "unlock"
         /\ call[t].op = "isTheNodeContainsTransaction"
         /\ mustSee[t]) => result[t] = "true"

C9_Witness ==
    \E t \in Threads, u \in Threads :
        /\ t # u
        /\ pc[t] = "unlock" /\ pc[u] = "unlock"
        /\ call[t].op = "isTheNodeContainsTransaction"
        /\ call[u].op = "isTheNodeContainsTransaction"
        /\ call[t].node # call[u].node
        /\ mustSee[t] /\ mustSee[u]
        /\ result[t] = "true" /\ result[u] = "true"

\* C10: a thread inside appendNodeContainsTransaction,
\* appendNodeListContainTransaction or clear is alone inside the marker, and a
\* thread that waits for a ReadGuard while no thread is inside one of those
\* three can take it.
C10_WritersExcludeReadersShare ==
    \A t \in Threads :
        /\ (InCritical(t) /\ Modifies(call[t].op)) =>
               \A u \in Threads \ {t} : ~InCritical(u)
        /\ (/\ pc[t] = "lock"
            /\ ~Modifies(call[t].op)
            /\ \A u \in Threads \ {t} : ~(InCritical(u) /\ Modifies(call[u].op)))
               => ENABLED ReadGuardLock(t)

C10_Witness ==
    \E t \in Threads, u \in Threads, w \in Threads :
        /\ t # u /\ t # w /\ u # w
        /\ InCritical(t) /\ ~Modifies(call[t].op)
        /\ InCritical(u) /\ ~Modifies(call[u].op)
        /\ pc[w] = "lock" /\ ~Modifies(call[w].op)

\* C11: isKnownBySomeone() computes true iff the peer set is not empty while
\* the call holds its guard, and it computes false only when no append has
\* returned since the marker was constructed or last cleared.
C11_KnownBySomeoneIffNonEmpty ==
    \A t \in Threads :
        (pc[t] = "unlock" /\ call[t].op = "isKnownBySomeone") =>
            /\ result[t] = (IF m_nodeListWithTheTransaction # {} THEN "true" ELSE "false")
            /\ result[t] = "false" => completed = {}

C11_Witness ==
    \E t \in Threads, u \in Threads, w \in Threads :
        /\ t # u /\ t # w /\ u # w
        /\ pc[t] = "unlock" /\ call[t].op = "isKnownBySomeone" /\ result[t] = "true"
        /\ pc[u] = "unlock" /\ call[u].op = "isKnownBySomeone" /\ result[u] = "true"
        /\ pc[w] = "lock" /\ call[w].op = "clear"
        /\ completed # {}

\* C12: every step leaves the peer set as it was or a superset of it, except
\* the step of clear() that empties it.
C12_SetGrowsUntilCleared ==
    [][\/ m_nodeListWithTheTransaction \subseteq m_nodeListWithTheTransaction'
       \/ /\ m_nodeListWithTheTransaction' = {}
          /\ \E t \in Threads :
                /\ pc[t] = "body" /\ call[t].op = "clear"
                /\ pc'[t] = "unlock"]_vars

C12_Witness ==
    \E t \in Threads, u \in Threads :
        /\ t # u
        /\ pc[t] = "unlock" /\ call[t].op = "appendNodeContainsTransaction"
        /\ completed # {}
        /\ call[t].node \notin completed
        /\ m_nodeListWithTheTransaction = completed \cup {call[t].node}
        /\ pc[u] = "lock" /\ call[u].op = "clear"

\* C13: decode takes the RC1 path on 7 fields and the RC2 path on 13, exactly
\* one of the two on 10, and fails with DecodeError, the object untouched, on
\* every other field count.
C13_DecodePathByFieldCount ==
    (codecRet.done /\ codecArg.op = "decode") =>
        LET n == Len(codecArg.items)
            r == [err |-> codecRet.err, tx |-> codecRet.tx]
            rc1 == decodeRC1(codecArg.t, codecArg.items, codecArg.check, rcVersion)
            rc2 == decodeRC2(codecArg.t, codecArg.items, codecArg.check, rcVersion)
        IN  IF n = c_fieldCountRC1WithOutSig THEN r = rc1
            ELSE IF n = c_fieldCountRC2WithOutSig + c_sigCount THEN r = rc2
            ELSE IF n = c_fieldCountRC1WithOutSig + c_sigCount
            THEN (r = rc1) # (r = rc2)
            ELSE r.err = "DecodeError" /\ r.tx = codecArg.t

C13_Witness ==
    /\ codecRet.done
    /\ codecArg.op = "decode"
    /\ Len(codecArg.items) = c_fieldCountRC1WithOutSig + c_sigCount
    /\ codecArg.check = "Everything"
    /\ rcVersion = 1
    /\ codecRet.err = "none"
    /\ hasSignature(codecRet.tx)
    /\ codecRet.tx.m_sender # NullAddress

\* C14: for a MessageCall or ContractCreation transaction t that carries a
\* signature an address is recovered from, in either format version, decoding
\* the signed encoding of t with check level Everything succeeds, the result
\* equals t under operator== and has the hash of t.
C14_RoundTrip ==
    (/\ codecRet.done
     /\ codecArg.op = "roundtrip"
     /\ codecArg.t.m_type \in {MessageCall, ContractCreation}
     /\ hasSignature(codecArg.t)
     /\ ~hasZeroSignature(codecArg.t)) =>
        /\ codecRet.err = "none"
        /\ TxEq(codecRet.tx, codecArg.t)
        /\ TxEq(codecArg.t, codecRet.tx)
        /\ hash(codecRet.tx, WithSignature, rcVersion).err = "none"
        /\ hash(codecRet.tx, WithSignature, rcVersion).val =
               hash(codecArg.t, WithSignature, rcVersion).val

C14_Witness ==
    /\ codecRet.done
    /\ codecArg.op = "roundtrip"
    /\ codecArg.t.m_type = ContractCreation
    /\ codecArg.t.m_receiveAddress # NullAddress
    /\ codecArg.t.m_data # EmptyBytes
    /\ rcVersion = 2
    /\ codecRet.err = "none"
    /\ codecRet.tx.m_type = ContractCreation
    /\ codecRet.tx.m_rlpBuffer # EmptyBytes

C16_SignedEncodingOfUnsignedFails ==
    ~hasSignature(tx) =>
        LET e == encode(tx, WithSignature, rcVersion)
            b == rlp(tx, WithSignature, rcVersion)
            h == hash(tx, WithSignature, rcVersion)
        IN  /\ e.err = "TransactionIsUnsigned" /\ e.bytes = EmptyBytes
            /\ b.err = "TransactionIsUnsigned" /\ b.bytes = EmptyBytes
            /\ h.err = "TransactionIsUnsigned" /\ h.val = ZeroHash
            /\ h.tx = tx

C16_Witness ==
    /\ last = "setBlockLimit"
    /\ tx.m_blockLimit = MaxU256
    /\ tx.m_type = ContractCreation
    /\ tx.m_data # EmptyBytes
    /\ ~hasSignature(tx)
    /\ rlp(tx, WithSignature, rcVersion).err = "TransactionIsUnsigned"
    /\ hash(tx, WithSignature, rcVersion).err = "TransactionIsUnsigned"

\* C17: the peer set is the collection of the peers added since the last
\* clear(), whatever the order, the repetition and the grouping into lists of
\* the appends: an append of one peer leaves the set with that peer added to
\* those appended before, a list append with the peers of its iterations so
\* far, and a membership query answers by that collection alone.
C17_InsertionIdempotentAnyOrder ==
    /\ (\A t \in Threads : ~(InCritical(t) /\ Modifies(call[t].op))) =>
           m_nodeListWithTheTransaction = completed
    /\ \A t \in Threads :
        /\ (pc[t] = "unlock" /\ call[t].op = "appendNodeContainsTransaction") =>
               m_nodeListWithTheTransaction = completed \cup {call[t].node}
        /\ (InCritical(t) /\ call[t].op = "appendNodeListContainTransaction") =>
               m_nodeListWithTheTransaction =
                   completed \cup SeqRange(SubSeq(call[t].list, 1, call[t].i - 1))
        /\ (pc[t] = "unlock" /\ call[t].op = "isTheNodeContainsTransaction") =>
               result[t] = (IF call[t].node \in completed THEN "true" ELSE "false")

C17_Witness ==
    \E t \in Threads, u \in Threads :
        /\ t # u
        /\ pc[t] = "unlock" /\ call[t].op = "appendNodeListContainTransaction"
        /\ Len(call[t].list) > 1
        /\ call[t].list[1] # call[t].list[2]
        /\ call[t].list[2] \in completed
        /\ call[t].list[1] \notin completed
        /\ pc[u] = "lock" /\ call[u].op = "appendNodeContainsTransaction"
        /\ call[u].node = call[t].list[1]

\* A thread that is not inside a member function holds no lock.
NoLockOutsideCalls ==
    \A t \in Threads :
        pc[t] \in {"idle", "lock"} => (writer # t /\ t \notin readers)

\* While a call is in progress some thread can take a step of its call.
NoDeadlock ==
    (\E t \in Threads : pc[t] # "idle") =>
        \E u \in Threads :
            \/ InCritical(u)
            \/ pc[u] = "lock" /\ CanLock(GuardOf(call[u].op), writer, readers)

Partial(t) ==
    /\ pc[t] = "body"
    /\ call[t].op = "appendNodeListContainTransaction"
    /\ 1 < call[t].i
    /\ call[t].i <= Len(call[t].list)

\* C19: while a list append is between two of its insertions no other thread
\* is inside a member function of the marker, no query computes a result,
\* and the set changes by the next insertion of that list only.
C19_ListAppendIsAtomic ==
    /\ [](\A t \in Threads : Partial(t) => \A u \in Threads \ {t} : ~InCritical(u))
    /\ [][\A t \in Threads : Partial(t) =>
            /\ result' = result
            /\ \/ m_nodeListWithTheTransaction' = m_nodeListWithTheTransaction
               \/ /\ call'[t].i = call[t].i + 1
                  /\ m_nodeListWithTheTransaction' =
                         m_nodeListWithTheTransaction \cup {call[t].list[call[t].i]}]_vars

C19_Witness ==
    \E t \in Threads, u \in Threads, w \in Threads :
        /\ t # u /\ t # w /\ u # w
        /\ Partial(t)
        /\ call[t].list[1] # call[t].list[2]
        /\ m_nodeListWithTheTransaction = {call[t].list[1]}
        /\ pc[u] = "lock" /\ call[u].op = "isTheNodeContainsTransaction"
        /\ call[u].node = call[t].list[2]
        /\ pc[w] = "lock" /\ call[w].op = "clear"

\* C20: a step of a member function of the marker leaves the transaction as
\* it was; a step that changes the transaction leaves the marker as it was;
\* and setImportTime, setRpcTx and setSynced change their own field and
\* nothing else, so the signature and the three caches stay.
C20_MarkerAndTransactionFrames ==
    [][/\ mvars' # mvars => (tx' = tx /\ last' = last)
       /\ (tx' # tx \/ last' # last) => mvars' = mvars
       /\ (last' = "setImportTime" /\ mvars' = mvars) =>
              tx' = [tx EXCEPT !.m_importTime = tx'.m_importTime]
       /\ (last' = "setRpcTx" /\ mvars' = mvars) =>
              tx' = [tx EXCEPT !.m_rpcTx = tx'.m_rpcTx]
       /\ (last' = "setSynced" /\ mvars' = mvars) =>
              tx' = [tx EXCEPT !.m_synced = tx'.m_synced]]_vars

C20_Witness ==
    /\ last = "setImportTime"
    /\ tx.m_importTime = MaxU256
    /\ tx.m_rpcTx
    /\ tx.m_synced
    /\ hasSignature(tx)
    /\ tx.m_hashWith # ZeroHash
    /\ tx.m_sender # NullAddress
    /\ tx.m_rlpBuffer # EmptyBytes
    /\ m_nodeListWithTheTransaction = Peers
    /\ pc[Owner] = "unlock"
    /\ call[Owner].op = "isKnownBySomeone"
    /\ result[Owner] = "true"

====
